---- MODULE Spec2Model ----
(***************************************************************************)
(* Model of the importable-pool listing of go-zfs: ListExportedZpools, the *)
(* block scanner ExportedZpool.parseLines and ExportedZpool.Import.        *)
(*                                                                         *)
(* The repository holds two versions of the file: src/unnamed/part_000     *)
(* (build "part_000") and src/zpool.go (build "zpool_go").  The variable   *)
(* build says which of the two is running; it never changes.               *)
(*                                                                         *)
(* Go strings are TLA+ strings; a tokenized line is a sequence of strings. *)
(*                                                                         *)
(* part_000 is read as it is evidently meant: the stray backslash of its   *)
(* line 203 is ignored, and ez.Vdevs holds the *VdevGroup pointers that    *)
(* its lines 204 and 212 append.  zpool.go appends *curVdevGroup, a copy.   *)
(* A Go runtime panic (an index out of range) ends the call: pc = "panic". *)
(***************************************************************************)
EXTENDS Integers, Sequences, FiniteSets, TLC

VARIABLES
    build,  \* which version of the file is running
    pc,     \* where ListExportedZpools is: "start", "loop", "scan" (inside
            \* parseLines), "done" (returned), "panic" (aborted by a runtime
            \* panic)
    pass,   \* 0 before the first report, 1 in the first loop, 2 in the second
    out,    \* out: the lines of the current report read so far
    n,      \* len(out)
    i,      \* the driver's cursor i (zero-based)
    sc,     \* the locals of the running parseLines call, ez included
    pools,  \* pools
    ret,    \* what ListExportedZpools returned
    calls,  \* the argument lists handed to zpoolOutput so far
    mark,   \* len(pools) when the second report was fetched
    imp     \* the last Import call: its count, arguments and result

vars == <<build, pc, pass, out, n, i, sc, pools, ret, calls, mark, imp>>

(* ---------------------------------------------------------------------- *)
(* Bounds                                                                  *)
(* ---------------------------------------------------------------------- *)

\* Lines the zpool tool prints over the two reports of one listing call.
MaxLines == 3

\* Import calls made on one record.
MaxImports == 2

Builds == {"part_000", "zpool_go"}

(* ---------------------------------------------------------------------- *)
(* strings package                                                         *)
(* ---------------------------------------------------------------------- *)

\* strings.Join(a, sep)
RECURSIVE Join(_, _)
Join(a, sep) ==
    IF Len(a) = 0 THEN ""
    ELSE IF Len(a) = 1 THEN a[1]
    ELSE a[1] \o sep \o Join(Tail(a), sep)

\* strings.Contains(s, substr)
Contains(s, substr) ==
    \E k \in 1..(Len(s) - Len(substr) + 1) :
        SubSeq(s, k, k + Len(substr) - 1) = substr

\* strings.Split(s, "-")[0]: the text before the first hyphen, all of s if
\* it has none.
SplitDashFirst(s) ==
    LET hy == {k \in 1..Len(s) : SubSeq(s, k, k) = "-"}
    IN  IF hy = {} THEN s
        ELSE SubSeq(s, 1, (CHOOSE k \in hy : \A m \in hy : k <= m) - 1)

(* ---------------------------------------------------------------------- *)
(* Helpers of the package that live outside the two files                  *)
(* ---------------------------------------------------------------------- *)

\* setString(&field, value): the value the field holds afterwards.
setString(field, value) == IF field = "" THEN value ELSE field

\* The fixed set of redundancy-scheme names.
VdevGroupNames == {"mirror", "raidz", "raidz1", "raidz2", "raidz3"}

IsVdevGroup(name) == name \in VdevGroupNames

\* ResolveDeviceName(raw): a pure lookup giving the presentable name.
ResolveDeviceName(raw) == "/dev/" \o raw

(* ---------------------------------------------------------------------- *)
(* Records                                                                 *)
(* ---------------------------------------------------------------------- *)

\* Vdev{Name, Health}
Vdev(name, health) == [Name |-> name, Health |-> health]

\* VdevGroup{Group, Devices}
VdevGroup(group) == [Group |-> group, Devices |-> <<>>]

\* The zero ExportedZpool: &ExportedZpool{} / var ez ExportedZpool
ExportedZpool ==
    [Name |-> "", Id |-> "", State |-> "", Status |-> "", Action |-> "",
     Vdevs |-> <<>>]

\* curVdevGroup = nil; otherwise obj is the group it points to.
NilGroup == [nil |-> TRUE, obj |-> VdevGroup(Vdev("", ""))]

Ptr(g) == [nil |-> FALSE, obj |-> g]

(* ---------------------------------------------------------------------- *)
(* ExportedZpool.parseLines                                                *)
(* ---------------------------------------------------------------------- *)

\* The locals of parseLines at entry, for the record ez.
ScanEntry(ez) ==
    [ez |-> ez, actionFound |-> FALSE, configFound |-> FALSE, loc |-> 0,
     curVdevGroup |-> NilGroup, st |-> "run", val |-> 0]

\* No parseLines call is active.
ScanIdle == [ScanEntry(ExportedZpool) EXCEPT !.st = "idle"]

\* An index expression line[1] on a line of one token: runtime panic.
ScanPanic(s) == [s EXCEPT !.st = "panic"]

\* case "id:"
CaseId(s, line) ==
    IF Len(line) < 2 THEN ScanPanic(s)
    ELSE [s EXCEPT !.ez.Id = setString(s.ez.Id, line[2])]

\* case "state:" with a plain assignment in place of setString
CaseStateAssigns(s, line) ==
    [s EXCEPT !.ez.State = Join(Tail(line), " ")]

\* case "state:"
CaseState(s, line) ==
    [s EXCEPT !.ez.State = setString(s.ez.State, Join(Tail(line), " "))]

\* case "status:"
CaseStatus(s, line) ==
    [s EXCEPT !.ez.Status = setString(s.ez.Status, Join(Tail(line), " "))]

\* case "action:"
CaseAction(s, line) ==
    [s EXCEPT !.ez.Action = setString(s.ez.Action, Join(Tail(line), " ")),
              !.actionFound = TRUE]

\* The guard of the continuation branch of the default case.
ContinuationArmed(b, s) ==
    IF b = "part_000" THEN s.actionFound /\ ~s.configFound
    ELSE s.actionFound

\* The continuation branch with the separating space left out.
AppendActionNoSpace(s, line) ==
    [s EXCEPT !.ez.Action = s.ez.Action \o Join(line, " "),
              !.actionFound = FALSE]

\* The continuation branch: the line is appended to the action text.
AppendAction(s, line) ==
    [s EXCEPT !.ez.Action = s.ez.Action \o " " \o Join(line, " "),
              !.actionFound = FALSE]

\* The group name stored for a group-header line.
GroupName(b, tok) == IF b = "part_000" THEN ResolveDeviceName(tok) ELSE tok

\* The device name stored for a device line.
DeviceName(b, tok) == IF b = "part_000" THEN ResolveDeviceName(tok) ELSE tok

\* A group-header line: a new group becomes curVdevGroup and is appended to
\* ez.Vdevs (part_000 appends the pointer, zpool.go a copy of the group).
OpenGroup(b, s, line) ==
    IF Len(line) < 2 THEN ScanPanic(s)
    ELSE LET g == VdevGroup(Vdev(GroupName(b, line[1]), line[2]))
         IN  [s EXCEPT !.curVdevGroup = Ptr(g),
                       !.ez.Vdevs = Append(s.ez.Vdevs, g)]

\* if curVdevGroup == nil { ... "fileordisk" ... }  (part_000 only)
OpenSynthetic(s) ==
    IF s.curVdevGroup.nil
    THEN LET g == VdevGroup(Vdev("fileordisk", ""))
         IN  [s EXCEPT !.curVdevGroup = Ptr(g),
                       !.ez.Vdevs = Append(s.ez.Vdevs, g)]
    ELSE s

\* curVdevGroup.Devices = append(curVdevGroup.Devices, device).  In part_000
\* ez.Vdevs holds the pointer itself, and curVdevGroup always is its last
\* element, so the record sees the device; in zpool.go ez.Vdevs holds a copy
\* made when the group was opened, which the append does not reach.
AppendDevice(b, s, device) ==
    LET devs == Append(s.curVdevGroup.obj.Devices, device)
        k    == Len(s.ez.Vdevs)
    IN  IF b = "part_000"
        THEN [s EXCEPT !.curVdevGroup.obj.Devices = devs,
                       !.ez.Vdevs[k].Devices = devs]
        ELSE [s EXCEPT !.curVdevGroup.obj.Devices = devs]

\* A line that is no group header.
DeviceLine(b, s, line) ==
    IF b = "part_000"
    THEN LET t == OpenSynthetic(s)
         IN  IF Len(line) < 2 THEN ScanPanic(t)
             ELSE AppendDevice(b, t, Vdev(DeviceName(b, line[1]), line[2]))
    ELSE IF s.curVdevGroup.nil THEN s
         ELSE IF Len(line) < 2 THEN ScanPanic(s)
         ELSE AppendDevice(b, s, Vdev(DeviceName(b, line[1]), line[2]))

\* The test that makes a line a group header.
IsGroupHeader(line) == IsVdevGroup(SplitDashFirst(line[1]))

\* default:
CaseDefault(b, s, line) ==
    IF ContinuationArmed(b, s) THEN AppendAction(s, line)
    ELSE IF IsGroupHeader(line) THEN OpenGroup(b, s, line)
    ELSE DeviceLine(b, s, line)

\* case "pool:" returning loc, the block-start line counted in
CasePoolCountsMarker(s) == [s EXCEPT !.st = "ret", !.val = s.loc]

\* case "pool:" returning loc - 2, one line short
CasePoolCountsShort(s) == [s EXCEPT !.st = "ret", !.val = s.loc - 2]

\* case "pool:": return loc - 1
CasePool(s) == [s EXCEPT !.st = "ret", !.val = s.loc - 1]

\* switch line[0]
Switch(b, s, line) ==
    IF line[1] = "pool:" THEN CasePool(s)
    ELSE IF line[1] = "id:" THEN CaseId(s, line)
    ELSE IF line[1] = "state:" THEN CaseState(s, line)
    ELSE IF line[1] = "status:" THEN CaseStatus(s, line)
    ELSE IF line[1] = "action:" THEN CaseAction(s, line)
    ELSE IF line[1] = s.ez.Name THEN s
    ELSE IF b = "part_000" /\ line[1] = "config:"
         THEN [s EXCEPT !.configFound = TRUE]
    ELSE CaseDefault(b, s, line)

\* One iteration of `for _, line := range lines`.
ScanBody(b, s, line) ==
    LET t == [s EXCEPT !.loc = s.loc + 1]
    IN  IF Len(line) = 0 THEN t ELSE Switch(b, t, line)

\* The range loop is over: return loc.
ScanReturn(s) == [s EXCEPT !.st = "ret", !.val = s.loc]

\* parseLines run on a whole slice: the locals when it returns or panics.
RECURSIVE parseLines(_, _, _)
parseLines(b, s, lines) ==
    IF s.st # "run" THEN s
    ELSE IF Len(lines) = 0 THEN ScanReturn(s)
    ELSE parseLines(b, ScanBody(b, s, Head(lines)), Tail(lines))

(* ---------------------------------------------------------------------- *)
(* The Command Runner: zpoolOutput                                         *)
(* ---------------------------------------------------------------------- *)

\* The tokenized lines the tool may print.  A blank source line is the
\* empty token sequence.
Lines ==
    { <<>>,
      <<"pool:", "tank">>, <<"pool:", "data">>, <<"pool:">>,
      <<"id:", "123">>, <<"id:", "456">>, <<"id:">>,
      <<"state:", "ONLINE">>, <<"state:", "ONLINE", "(DESTROYED)">>,
      <<"state:">>,
      <<"status:", "degraded">>, <<"status:", "One", "or", "more">>,
      <<"status:">>,
      <<"action:", "The", "pool">>, <<"action:", "Import">>, <<"action:">>,
      <<"config:">>,
      <<"tank", "ONLINE">>,
      <<"mirror-0", "ONLINE">>, <<"mirror-x", "ONLINE">>,
      <<"raidz1-0-1", "ONLINE">>,
      <<"sda", "ONLINE">>, <<"sdb", "DEGRADED">>, <<"sdc">> }

\* Lines left for the second report once the first had len lines.
Budget(len) == IF len < MaxLines THEN MaxLines - len ELSE 0

\* The value ListExportedZpools or Import has returned, if it has.
NoRet == [done |-> FALSE, pools |-> <<>>, err |-> FALSE]

Return(ps, e) == [done |-> TRUE, pools |-> ps, err |-> e]

\* The error return handing back the records gathered so far.
ReturnErrWithRecords(ps) == Return(ps, TRUE)

\* if err != nil { return nil, err }, with ps the records gathered so far
ReturnErr(ps) == Return(<<>>, TRUE)

(* ---------------------------------------------------------------------- *)
(* ListExportedZpools                                                      *)
(* ---------------------------------------------------------------------- *)

\* ez.Name = out[i][1] (part_000), ez.Name = out[i][0] (zpool.go)
BlockName(b, line) == IF b = "part_000" THEN line[2] ELSE line[1]

\* The block-start line cannot be indexed for its name: runtime panic.
BlockNamePanics(b, line) == b = "part_000" /\ Len(line) < 2

\* out[i][0] == "pool:"
IsBlockStart(line) == line[1] = "pool:"

\* pools after an iteration whose line is no block start: part_000 appends
\* inside the if, zpool.go after it.
AfterPlainLine(b, ps) ==
    IF b = "part_000" THEN ps ELSE Append(ps, ExportedZpool)

\* args := []string{"import"}; out, err := zpoolOutput(args...)
RunImport ==
    /\ pc = "start"
    /\ calls' = Append(calls, <<"import">>)
    /\ \/ /\ pc' = "done"
          /\ ret' = ReturnErr(pools)
          /\ UNCHANGED <<pass, out, n, i>>
       \/ /\ \E len \in 0..MaxLines : n' = len
          /\ out' = <<>>
          /\ i' = 0
          /\ pass' = 1
          /\ pc' = "loop"
          /\ UNCHANGED ret
    /\ UNCHANGED <<build, sc, pools, mark, imp>>

\* One iteration of `for i := 0; i < len(out); i++` up to the parseLines
\* call.  out holds the lines read so far; a line is drawn from the report
\* when the cursor first reaches it.
LoopLine ==
    /\ pc = "loop"
    /\ i < n
    /\ \E line \in (IF i < Len(out) THEN {out[i + 1]} ELSE Lines) :
          /\ out' = (IF i < Len(out) THEN out ELSE Append(out, line))
          /\ IF Len(line) = 0 \/ (IsBlockStart(line) /\ BlockNamePanics(build, line))
             THEN /\ pc' = "panic"
                  /\ UNCHANGED <<i, sc, pools>>
             ELSE IF IsBlockStart(line)
             THEN /\ sc' = ScanEntry([ExportedZpool EXCEPT
                                       !.Name = BlockName(build, line)])
                  /\ pc' = "scan"
                  /\ UNCHANGED <<i, pools>>
             ELSE /\ pools' = AfterPlainLine(build, pools)
                  /\ i' = i + 1
                  /\ UNCHANGED <<pc, sc>>
    /\ UNCHANGED <<build, pass, n, ret, calls, mark, imp>>

\* The driver with one record declared outside the loop: every element of
\* pools points to it.
ResumeSharingRecord(s) ==
    /\ i' = i + s.val + 1
    /\ pools' = [k \in 1..(Len(pools) + 1) |-> s.ez]
    /\ sc' = ScanIdle
    /\ pc' = "loop"

\* The driver with i = linesParsed in place of i = i + linesParsed.
ResumeAbsolute(s) ==
    /\ i' = s.val + 1
    /\ pools' = Append(pools, s.ez)
    /\ sc' = ScanIdle
    /\ pc' = "loop"

\* The driver after parseLines returned linesParsed:
\* i = i + linesParsed; pools = append(pools, ez); i++
Resume(s) ==
    /\ i' = i + s.val + 1
    /\ pools' = Append(pools, s.ez)
    /\ sc' = ScanIdle
    /\ pc' = "loop"

\* One iteration of the range loop of parseLines(out[i+1:]): it reads the
\* line at index i + 1 + loc of out, drawn from the report if no one has read
\* it yet.
ScanLine ==
    /\ pc = "scan"
    /\ i + 1 + sc.loc < n
    /\ \E line \in (IF i + 1 + sc.loc < Len(out)
                    THEN {out[i + 2 + sc.loc]} ELSE Lines) :
          /\ out' = (IF i + 1 + sc.loc < Len(out) THEN out
                     ELSE Append(out, line))
          /\ LET s == ScanBody(build, sc, line)
             IN  IF s.st = "panic"
                 THEN /\ pc' = "panic"
                      /\ sc' = s
                      /\ UNCHANGED <<i, pools>>
                 ELSE IF s.st = "ret" THEN Resume(s)
                 ELSE /\ sc' = s
                      /\ UNCHANGED <<pc, i, pools>>
    /\ UNCHANGED <<build, pass, n, ret, calls, mark, imp>>

\* The slice handed to parseLines is used up: it returns loc.
ScanEnd ==
    /\ pc = "scan"
    /\ i + 1 + sc.loc >= n
    /\ Resume(ScanReturn(sc))
    /\ UNCHANGED <<build, pass, out, n, ret, calls, mark, imp>>

\* log.Println(out[0][0]) of zpool.go, ahead of the second loop.
LogFirstPanics(b, len, first) ==
    b = "zpool_go" /\ (len = 0 \/ Len(first) = 0)

\* The first loop is over: args = []string{"import", "-D"}; out, err =
\* zpoolOutput(args...).
RunImportD ==
    /\ pc = "loop"
    /\ pass = 1
    /\ i >= n
    /\ calls' = Append(calls, <<"import", "-D">>)
    /\ \/ /\ pc' = "done"
          /\ ret' = ReturnErr(pools)
          /\ UNCHANGED <<pass, out, n, i, mark>>
       \/ /\ mark' = Len(pools)
          /\ \E len \in 0..Budget(n) :
               /\ n' = len
               /\ IF build = "zpool_go"
                  THEN \E first \in (IF len = 0 THEN {<<>>} ELSE Lines) :
                          /\ out' = (IF len = 0 THEN <<>> ELSE <<first>>)
                          /\ pc' = (IF LogFirstPanics(build, len, first)
                                    THEN "panic" ELSE "loop")
                  ELSE out' = <<>> /\ pc' = "loop"
          /\ i' = 0
          /\ pass' = 2
          /\ UNCHANGED ret
    /\ UNCHANGED <<build, sc, pools, imp>>

\* The second loop is over: return pools, nil
ReturnPools ==
    /\ pc = "loop"
    /\ pass = 2
    /\ i >= n
    /\ pc' = "done"
    /\ ret' = Return(pools, FALSE)
    /\ UNCHANGED <<build, pass, out, n, i, sc, pools, calls, mark, imp>>

(* ---------------------------------------------------------------------- *)
(* ExportedZpool.Import                                                    *)
(* ---------------------------------------------------------------------- *)

\* No Import call has been made.
NoImport ==
    [calls |-> 0, tryForce |-> FALSE, rec |-> 0, runner |-> "none",
     ret |-> NoRet]

\* importFlags of part_000
ImportFlags(ez, tryForce) ==
    "-N" \o (IF tryForce THEN "f" ELSE "")
         \o (IF Contains(ez.State, "DESTROYED") THEN "D" ELSE "")

\* args := []string{"import", importFlags, ez.Id}
ImportArgs(ez, tryForce) == <<"import", ImportFlags(ez, tryForce), ez.Id>>

\* Whether this build's Import runs the tool at all: zpool.go's body is
\* `return nil`.
ImportRuns(b) == b = "part_000"

\* The error Import returns, given the runner's outcome ("none" when the
\* tool was not run): `return err`, or `return nil` in zpool.go.
ImportResult(b, outcome) == IF ImportRuns(b) THEN outcome = "failed" ELSE FALSE

\* ez.Import(tryForce) on a record the listing returned.
Import ==
    /\ pc = "done"
    /\ ret.done /\ ~ret.err
    /\ imp.calls < MaxImports
    /\ \E k \in 1..Len(ret.pools), tryForce \in BOOLEAN,
          outcome \in (IF ImportRuns(build) THEN {"ok", "failed"} ELSE {"none"}) :
          /\ calls' = (IF ImportRuns(build)
                       THEN Append(calls, ImportArgs(ret.pools[k], tryForce))
                       ELSE calls)
          /\ imp' = [calls |-> imp.calls + 1, tryForce |-> tryForce, rec |-> k,
                     runner |-> outcome,
                     ret |-> Return(<<>>, ImportResult(build, outcome))]
    /\ UNCHANGED <<build, pc, pass, out, n, i, sc, pools, ret, mark>>

(* ---------------------------------------------------------------------- *)
(* Specifications                                                          *)
(* ---------------------------------------------------------------------- *)

\* A listing call is about to start.
Init ==
    /\ build \in Builds
    /\ pc = "start"
    /\ pass = 0
    /\ out = <<>>
    /\ n = 0
    /\ i = 0
    /\ sc = ScanIdle
    /\ pools = <<>>
    /\ ret = NoRet
    /\ calls = <<>>
    /\ mark = 0
    /\ imp = NoImport

Next ==
    \/ RunImport
    \/ LoopLine
    \/ ScanLine
    \/ ScanEnd
    \/ RunImportD
    \/ ReturnPools

Spec == Init /\ [][Next]_vars

\* Lines of the first report after its block-start line.
MaxBlock == 3

\* The block-start line the scanner specification starts from.
FirstBlockStart == <<"pool:", "tank">>

\* The first report starts with a block-start line and the driver has just
\* read it: parseLines is entered on the rest of the report.
InitScan ==
    /\ build \in Builds
    /\ pc = "scan"
    /\ pass = 1
    /\ out = <<FirstBlockStart>>
    /\ n \in 1..(1 + MaxBlock)
    /\ i = 0
    /\ sc = ScanEntry([ExportedZpool EXCEPT
                         !.Name = BlockName(build, FirstBlockStart)])
    /\ pools = <<>>
    /\ ret = NoRet
    /\ calls = << <<"import">> >>
    /\ mark = 0
    /\ imp = NoImport

NextScan ==
    \/ LoopLine
    \/ ScanLine
    \/ ScanEnd
    \/ RunImportD
    \/ ReturnPools

SpecScan == InitScan /\ [][NextScan]_vars

\* The listing call keeps running until it returns or aborts: it is one
\* sequential function, with no step that waits for anything.
SpecFair == Init /\ [][Next]_vars /\ WF_vars(Next)

\* Block bodies of the records Import is called on.
ImportIdLines == { <<"id:", "123">>, <<"id:", "456">> }

ImportStateLines ==
    { <<"state:", "ONLINE">>, <<"state:", "ONLINE", "(DESTROYED)">>,
      <<"state:", "DESTROYED">>, <<"state:", "UNAVAIL">>,
      <<"state:", "FAULTED", "DESTROYED", "pool">>, <<"state:", "DESTROY">> }

ImportBodies ==
    {<<>>} \cup {<<l>> : l \in ImportIdLines \cup ImportStateLines}
           \cup {<<a, b>> : a \in ImportIdLines, b \in ImportStateLines}

\* The listing has returned the one record of a report made of a
\* block-start line and a body; its second report was empty.
InitImport ==
    /\ build \in Builds
    /\ pc = "done"
    /\ pass = 2
    /\ out = <<>>
    /\ n = 0
    /\ i = 0
    /\ sc = ScanIdle
    /\ \E body \in ImportBodies :
          pools = << parseLines(build,
                                ScanEntry([ExportedZpool EXCEPT
                                   !.Name = BlockName(build, FirstBlockStart)]),
                                body).ez >>
    /\ ret = Return(pools, FALSE)
    /\ calls = << <<"import">>, <<"import", "-D">> >>
    /\ mark = 1
    /\ imp = NoImport

NextImport == Import

SpecImport == InitImport /\ [][NextImport]_vars

(* ---------------------------------------------------------------------- *)
(* The report as the claims speak of it                                    *)
(* ---------------------------------------------------------------------- *)

\* A block-start line: its first token is `pool:`.
IsMarker(line) == Len(line) > 0 /\ line[1] = "pool:"

\* Positions of the block-start lines of a report.
MarkerIdx(o) == {k \in 1..Len(o) : IsMarker(o[k])}

\* Position of the j-th block-start line.
NthMarker(o, j) ==
    CHOOSE k \in MarkerIdx(o) : Cardinality({m \in MarkerIdx(o) : m <= k}) = j

\* The lines of the j-th block: those after its block-start line, up to the
\* next block-start line or the end of the report.
BlockOf(o, j) ==
    LET a == NthMarker(o, j)
        later == {m \in MarkerIdx(o) : m > a}
        b == IF later = {} THEN Len(o) + 1
             ELSE CHOOSE m \in later : \A m2 \in later : m <= m2
    IN  SubSeq(o, a + 1, b - 1)

\* A listing call is running or has ended on the report in out.
InReport == pass \in {1, 2}

\* The whole report in out has been read.
ReportRead == InReport /\ Len(out) = n

\* The driver loop over the report in out is over.
LoopOver == InReport /\ ((pc = "loop" /\ i >= n) \/ pc = "done")

\* The records the driver made from the report in out.
Made == SubSeq(pools, mark + 1, Len(pools))

\* The lines the running parseLines call has read.
ScanRead == SubSeq(out, i + 2, i + 1 + sc.loc)

(* ---------------------------------------------------------------------- *)
(* Claims                                                                  *)
(* ---------------------------------------------------------------------- *)

\* C1: a report in which no line starts with `pool:` (empty, plain lines,
\* blank lines) never aborts the call, and the driver makes no record from
\* it.
C1_NoMarkerEmptyResult ==
    (ReportRead /\ MarkerIdx(out) = {})
        => /\ pc # "panic"
           /\ LoopOver => Made = <<>>

\* The record parseLines makes of the j-th block of the report o.
RecordOf(b, o, j) ==
    parseLines(b,
               ScanEntry([ExportedZpool EXCEPT
                            !.Name = BlockName(b, o[NthMarker(o, j)])]),
               BlockOf(o, j)).ez

\* C2: when the driver loop is over, the report's k block-start lines have
\* given exactly k records, the j-th being the record of the j-th block.
C2_OneRecordPerMarker ==
    LoopOver =>
        /\ Len(Made) = Cardinality(MarkerIdx(out))
        /\ \A j \in 1..Len(Made) : Made[j] = RecordOf(build, out, j)

\* C3: the name of a record is the token after `pool:` on its block-start
\* line, never `pool:` itself.
C3_NameIsValueToken ==
    /\ (pc = "scan" /\ Len(out[i + 1]) >= 2) => sc.ez.Name = out[i + 1][2]
    /\ \A k \in 1..Len(pools) : pools[k].Name # "pool:"

\* The header keys of a block body.
HeaderKeys == {"id:", "state:", "status:", "action:"}

\* A line that reaches the default case of the switch in build b, for a
\* record named name.
FreeShaped(b, name, line) ==
    /\ Len(line) > 0
    /\ line[1] \notin HeaderKeys \cup {"pool:", name}
    /\ ~(b = "part_000" /\ line[1] = "config:")

\* Line k of the block blk is taken as continuation text: the last line
\* before it that is an `action:` line or reaches the default case is an
\* `action:` line (and, in part_000, no `config:` line came before).
TakenAsText(b, name, blk, k) ==
    LET prior == {m \in 1..(k - 1) :
                    Len(blk[m]) > 0 /\
                    (blk[m][1] = "action:" \/ FreeShaped(b, name, blk[m]))}
        last  == CHOOSE m \in prior : \A m2 \in prior : m2 <= m
    IN  /\ FreeShaped(b, name, blk[k])
        /\ prior # {}
        /\ blk[last][1] = "action:"
        /\ b = "part_000" =>
              \A m \in 1..(k - 1) : blk[m] = <<>> \/ blk[m][1] # "config:"

\* Line k of the block is a structural line: a group header or a device.
Structural(b, name, blk, k) ==
    FreeShaped(b, name, blk[k]) /\ ~TakenAsText(b, name, blk, k)

GroupLines(b, name, blk) ==
    {k \in 1..Len(blk) : Structural(b, name, blk, k) /\ IsGroupHeader(blk[k])}

DeviceLines(b, name, blk) ==
    {k \in 1..Len(blk) : Structural(b, name, blk, k) /\ ~IsGroupHeader(blk[k])}

\* The elements of a set of positions, in increasing order.
Sorted(S) ==
    [j \in 1..Cardinality(S) |->
        CHOOSE k \in S : Cardinality({m \in S : m <= k}) = j]

\* The second token of a line, "" if it has none.
HealthOf(line) == IF Len(line) >= 2 THEN line[2] ELSE ""

\* The devices of the lines at the positions S, in order.
DevicesAt(b, blk, S) ==
    [j \in 1..Cardinality(S) |->
        Vdev(DeviceName(b, blk[Sorted(S)[j]][1]), HealthOf(blk[Sorted(S)[j]]))]

\* The group sequence the grouping rule gives a block: one group per
\* group-header line, holding the device lines up to the next group header,
\* preceded by one `fileordisk` group holding the device lines that come
\* before any group header, if there are such lines.
GroupedDevices(b, name, blk) ==
    LET G  == GroupLines(b, name, blk)
        D  == DeviceLines(b, name, blk)
        gs == Sorted(G)
        upto(j) == IF j < Cardinality(G) THEN gs[j + 1] ELSE Len(blk) + 1
        D0 == {d \in D : \A g \in G : d < g}
    IN  (IF D0 = {} THEN <<>>
         ELSE << [Group |-> Vdev("fileordisk", ""),
                  Devices |-> DevicesAt(b, blk, D0)] >>)
        \o [j \in 1..Cardinality(G) |->
              [Group |-> Vdev(GroupName(b, blk[gs[j]][1]), HealthOf(blk[gs[j]])),
               Devices |-> DevicesAt(b, blk, {d \in D : gs[j] < d /\ d < upto(j)})]]

\* The first block of the report has been scanned to its end.
FirstBlockDone ==
    /\ pass = 1
    /\ pools # <<>>
    /\ IsMarker(out[1])
    /\ pc # "panic"

\* C4: when parseLines has finished the first block, the record's groups
\* hold every device line of the block exactly once, each under the most
\* recent group header before it, and under one `fileordisk` group when no
\* group header precedes it.
C4_EveryDeviceGrouped ==
    FirstBlockDone =>
        pools[1].Vdevs = GroupedDevices(build, pools[1].Name, BlockOf(out, 1))

\* The value a header line carries: the second token for `id:`, the
\* remaining tokens joined by single spaces for the other keys.
ValueOf(line) ==
    IF line[1] = "id:" THEN HealthOf(line) ELSE Join(Tail(line), " ")

\* The field of the record a header key stands for.
FieldOf(ez, key) ==
    IF key = "id:" THEN ez.Id
    ELSE IF key = "state:" THEN ez.State
    ELSE IF key = "status:" THEN ez.Status
    ELSE ez.Action

\* Positions of the lines of a block that have the header key.
KeyLines(blk, key) == {k \in 1..Len(blk) : Len(blk[k]) > 0 /\ blk[k][1] = key}

\* Positions of the lines of a block taken as continuation text.
TextLines(b, name, blk) ==
    {k \in 1..Len(blk) : TakenAsText(b, name, blk, k)}

\* Position of the line that set the field of the key: the first line with
\* that key to carry a value, no continuation text having been appended to
\* the field before it.  0 if there is none.
SetAt(b, name, blk, key) ==
    LET S == {k \in KeyLines(blk, key) : ValueOf(blk[k]) # ""}
        a == CHOOSE k \in S : \A k2 \in S : k <= k2
    IN  IF S = {} THEN 0
        ELSE IF \E t \in TextLines(b, name, blk) : t < a THEN 0
        ELSE a

\* The key recurs: a line with the key follows the line that set its field.
Recurs(b, name, blk, key) ==
    /\ SetAt(b, name, blk, key) > 0
    /\ \E k \in KeyLines(blk, key) : k > SetAt(b, name, blk, key)

\* The continuation text of a block, as it is appended to the action value:
\* each text line joined by single spaces, after one space.
RECURSIVE TextAfter(_, _, _, _)
TextAfter(b, name, blk, k) ==
    IF k > Len(blk) THEN ""
    ELSE (IF TakenAsText(b, name, blk, k)
          THEN " " \o Join(blk[k], " ") ELSE "")
         \o TextAfter(b, name, blk, k + 1)

\* C5 as stated: right after a recurring key line is processed, the field
\* of each of the four keys equals the value of the line that set it.
C5_FirstSeenValueKept ==
    pc = "scan" =>
        \A key \in HeaderKeys :
            (/\ Recurs(build, sc.ez.Name, ScanRead, key)
             /\ Len(ScanRead) \in KeyLines(ScanRead, key))
                => FieldOf(sc.ez, key) =
                     ValueOf(ScanRead[SetAt(build, sc.ez.Name, ScanRead, key)])

\* C5, amended: once a key has recurred, the field of `id:`, `state:` and
\* `status:` equals the value of the line that set it, and the field of
\* `action:` equals that value followed by the continuation text of the
\* block: a recurring key line changes no field.
C5_FirstWriteWins ==
    pc = "scan" =>
        \A key \in HeaderKeys :
            Recurs(build, sc.ez.Name, ScanRead, key) =>
                FieldOf(sc.ez, key) =
                    ValueOf(ScanRead[SetAt(build, sc.ez.Name, ScanRead, key)])
                    \o (IF key = "action:"
                        THEN TextAfter(build, sc.ez.Name, ScanRead, 1)
                        ELSE "")

\* A second `state:` line with another value has been read, and the state
\* is that of the first.
C5_Witness ==
    /\ pc = "scan"
    /\ ScanRead = << <<"state:", "ONLINE">>,
                     <<"state:", "ONLINE", "(DESTROYED)">> >>
    /\ sc.ez.State = "ONLINE"

\* The pool name of the block being scanned: the token after `pool:` on its
\* block-start line.
ScanPoolName == HealthOf(out[i + 1])

\* A free-text line as C6 has it: its first token is no header key, not the
\* pool name and not `pool:`.
FreeText(line) ==
    Len(line) > 0 /\ line[1] \notin HeaderKeys \cup {"pool:", ScanPoolName}

\* The last two lines read are an `action:` line and a free-text line, and no
\* free-text line (so no structural line) comes before them in the block.
ActionThenText ==
    LET m == Len(ScanRead)
    IN  /\ pc = "scan"
        /\ m >= 2
        /\ Len(ScanRead[m - 1]) > 0
        /\ ScanRead[m - 1][1] = "action:"
        /\ FreeText(ScanRead[m])
        /\ \A k \in 1..(m - 2) : ~FreeText(ScanRead[k])

\* The tokens after `action:` followed by the tokens of the free-text line,
\* joined by single spaces; no group and no device.
JoinedAction ==
    LET m == Len(ScanRead)
    IN  /\ sc.ez.Action = Join(Tail(ScanRead[m - 1]) \o ScanRead[m], " ")
        /\ sc.ez.Vdevs = <<>>
        /\ sc.curVdevGroup.nil

ActionBefore ==
    parseLines(build, ScanEntry([ExportedZpool EXCEPT !.Name = sc.ez.Name]),
               SubSeq(ScanRead, 1, Len(ScanRead) - 2)).ez.Action

HasDestroyedMarker(state) ==
    \E a \in 0..Len(state) :
        state = SubSeq(state, 1, a) \o "DESTROYED"
                    \o SubSeq(state, a + 10, Len(state))

\* `-N`, then `f` iff forced, then `D` iff the state has the marker.
FlagsFor(state, tryForce) ==
    IF tryForce
    THEN (IF HasDestroyedMarker(state) THEN "-NfD" ELSE "-Nf")
    ELSE (IF HasDestroyedMarker(state) THEN "-ND" ELSE "-N")

\* The record the last Import call was made on.
Imported == ret.pools[imp.rec]

\* C7: an Import call hands the tool [`import`, flags, identifier], the
\* flags being `-N`, `f` iff tryForce, `D` iff the record's state contains
\* DESTROYED.
C7_ImportArguments ==
    imp.calls > 0 =>
        /\ Len(calls) > 2
        /\ calls[Len(calls)] =
              <<"import", FlagsFor(Imported.State, imp.tryForce), Imported.Id>>

\* C8: every Import call runs the tool exactly once and returns its outcome:
\* an error iff the tool failed, and success only when the tool ran and
\* succeeded.
C8_ImportReturnsRunnerOutcome ==
    /\ Len(calls) = 2 + imp.calls
    /\ imp.calls > 0 =>
          /\ imp.ret.done
          /\ imp.ret.err <=> imp.runner = "failed"
          /\ ~imp.ret.err <=> imp.runner = "ok"

\* C9: a listing call that returns an error returns no records; it returns
\* records only after both invocations succeeded; and when the first
\* invocation fails nothing but `import` was issued.
C9_AllOrNothing ==
    ret.done =>
        /\ ret.err => ret.pools = <<>>
        /\ ~ret.err => (pass = 2 /\ ret.pools = pools)
        /\ pass = 0 => (ret.err /\ calls = << <<"import">> >>)
        /\ pass = 1 => (ret.err /\ calls = << <<"import">>, <<"import", "-D">> >>)

\* The first report gave records and the second invocation failed.
C9_Witness ==
    /\ ret.done /\ ret.err
    /\ pass = 1
    /\ pools # <<>>
    /\ pools[1].Id = "123"
    /\ ret.pools = <<>>

\* C10: the call never aborts on reading a non-blank line, whatever the
\* line: an unrecognized line of one token, a `pool:` line without a value.
C10_NeverAborts ==
    (out # <<>> /\ out[Len(out)] # <<>>) => pc # "panic"

(* ---------------------------------------------------------------------- *)
(* What holds of part_000 alone                                            *)
(* ---------------------------------------------------------------------- *)

\* C2, of part_000: its driver makes one record per block-start line, in
\* order, and none for any other line.
C2_OfPart000 == build = "part_000" => C2_OneRecordPerMarker

\* C3, of part_000: it names a record by the token after `pool:`.
C3_OfPart000 == build = "part_000" => C3_NameIsValueToken

\* C4, of part_000: it puts every device line of a finished block in the
\* record, under its group.
C4_OfPart000 == build = "part_000" => C4_EveryDeviceGrouped

\* C7, of part_000: its Import hands the tool [`import`, flags, identifier].
C7_OfPart000 == build = "part_000" => C7_ImportArguments

\* C8, of part_000: its Import runs the tool once and returns its outcome.
C8_OfPart000 == build = "part_000" => C8_ImportReturnsRunnerOutcome

(* ---------------------------------------------------------------------- *)
(* The scanner one line back                                               *)
(* ---------------------------------------------------------------------- *)

\* A parseLines call is running or was aborted, and has read a line.
Scanning == pc \in {"scan", "panic"} /\ sc.st # "idle" /\ sc.loc > 0

\* The last line the scanner read.
LastRead == ScanRead[Len(ScanRead)]

\* The locals of a parseLines call on a record named name, as they are when
\* the range loop is about to read the line after lines.
LocalsAfter(b, name, lines) ==
    [parseLines(b, ScanEntry([ExportedZpool EXCEPT !.Name = name]), lines)
        EXCEPT !.st = "run", !.val = 0]

\* The locals of the running call as they were before it read LastRead.
ScanBefore ==
    LocalsAfter(build, sc.ez.Name, SubSeq(ScanRead, 1, Len(ScanRead) - 1))

\* C11: a header line that is the key alone (`id:`, `state:`, `status:`,
\* `action:`) aborts nothing and leaves the field of its key as it was, so
\* unset if it was unset; and a finished block without a `status:` line has
\* given a record with empty status.
C11_BareKeyLeavesUnset ==
    /\ (Scanning /\ Len(LastRead) = 1 /\ LastRead[1] \in HeaderKeys)
          => /\ pc # "panic"
             /\ FieldOf(sc.ez, LastRead[1]) = FieldOf(ScanBefore.ez, LastRead[1])
    /\ (FirstBlockDone /\ KeyLines(BlockOf(out, 1), "status:") = {})
          => pools[1].Status = ""

\* C11, of the keys with a joined value: a bare `state:`, `status:` or
\* `action:` line aborts nothing and leaves its field as it was.
C11_OfJoinedKeys ==
    (Scanning /\ Len(LastRead) = 1
        /\ LastRead[1] \in {"state:", "status:", "action:"})
          => /\ pc # "panic"
             /\ FieldOf(sc.ez, LastRead[1]) = FieldOf(ScanBefore.ez, LastRead[1])

\* The report in out starts with a block-start line: it is made of
\* back-to-back blocks.
BackToBack == InReport /\ out # <<>> /\ IsMarker(out[1])

\* C12: in a report of back-to-back blocks every record made so far is the
\* record of its own block's lines, whatever was scanned before or since,
\* and the locals of the running scan (record, open group, continuation
\* flag) are those a scan of this block's lines alone gives.
C12_IndependentlyScoped ==
    BackToBack =>
        /\ Len(Made) <= Cardinality(MarkerIdx(out))
        /\ \A j \in 1..Len(Made) : Made[j] = RecordOf(build, out, j)
        /\ pc = "scan" =>
              sc = LocalsAfter(build, BlockName(build, out[i + 1]), ScanRead)

\* Two blocks: the first has an action line, the second a device line that
\* is not taken as the first block's continuation text.
C12_Witness ==
    /\ out = << <<"pool:", "tank">>, <<"action:", "Import">>,
                <<"pool:", "data">>, <<"sda", "ONLINE">> >>
    /\ Len(pools) = 2
    /\ pools[1].Action = "Import"
    /\ pools[2].Action = ""
    /\ pools[2].Id = ""

\* The zero-based index of the first block-start line of lines, or the
\* length of lines if there is none.
RECURSIVE FirstMarkerOffset(_)
FirstMarkerOffset(lines) ==
    IF lines = <<>> \/ IsMarker(Head(lines)) THEN 0
    ELSE 1 + FirstMarkerOffset(Tail(lines))

\* The slice out[i+1:] handed to the running parseLines call, as far as the
\* report has been read.
Handed(o) == SubSeq(o, i + 2, Len(o))

\* C13: when parseLines returns, the count it returns (by which the driver
\* moves its cursor, before the loop's own increment) is the zero-based
\* index of the first block-start line of the slice it was handed, or the
\* length of the slice if it has none; blank lines before it are counted.
C13_ReturnedCount ==
    [][(pc = "scan" /\ pc' = "loop")
          => /\ i' - i - 1 = FirstMarkerOffset(Handed(out'))
             /\ (MarkerIdx(Handed(out')) = {} => i' - i - 1 = n - i - 1)]_vars

\* parseLines has returned 2 for a block of a blank line and an `id:` line
\* ended by a block-start line.
C13_Witness ==
    /\ pc = "loop"
    /\ i = 3
    /\ out = << <<"pool:", "tank">>, <<>>, <<"id:", "123">>,
                <<"pool:", "data">> >>
    /\ Len(pools) = 1

\* The records of Made that were made for a block-start line.
BlockRecords == {k \in 1..Len(Made) : Made[k].Name # ""}

\* The driver's cursor has passed a block-start line.
BlockPassed == MarkerIdx(SubSeq(out, 1, i)) # {}

\* C14: the scanner runs on the lines right after a block-start line, reads
\* only lines no one has read, and stops at the next block-start line; when
\* it has returned, the driver's cursor is on that block-start line, or at
\* the end of the report; the driver never moves past an unread line, and
\* every block-start line it has passed has given one scanner run.
C14_CursorHandOff ==
    (InReport /\ pc \in {"loop", "scan"}) =>
        /\ i <= Len(out)
        /\ Cardinality(BlockRecords) = Cardinality(MarkerIdx(SubSeq(out, 1, i)))
        /\ pc = "scan" =>
              /\ IsMarker(out[i + 1])
              /\ i + 1 + sc.loc = Len(out)
              /\ MarkerIdx(ScanRead) = {}
        /\ pc = "loop" =>
              /\ \A p \in MarkerIdx(out) : p <= i + 1
              /\ (BlockPassed /\ i < Len(out)) => IsMarker(out[i + 1])
              /\ (BlockPassed /\ i >= Len(out)) => i = n

\* The scanner has returned at the second block-start line, and the driver
\* is about to examine that line.
C14_Witness ==
    /\ pc = "loop"
    /\ i = 2
    /\ out = << <<"pool:", "tank">>, <<"id:", "123">>, <<"pool:", "data">> >>
    /\ Len(pools) = 1

\* C15: while a block is scanned and a group is open, the open group is the
\* last element of the record's group sequence, devices included: a device
\* appended to the open group is in the record.
C15_OpenGroupIsLast ==
    (pc = "scan" /\ ~sc.curVdevGroup.nil) =>
        /\ sc.ez.Vdevs # <<>>
        /\ sc.ez.Vdevs[Len(sc.ez.Vdevs)] = sc.curVdevGroup.obj

\* C15, of part_000: its record holds the open group itself.
C15_OfPart000 == build = "part_000" => C15_OpenGroupIsLast

(* ---------------------------------------------------------------------- *)
(* The reference rule for group headers                                    *)
(* ---------------------------------------------------------------------- *)

Digits == {"0", "1", "2", "3", "4", "5", "6", "7", "8", "9"}

\* A non-empty string of digits.
AllDigits(s) ==
    Len(s) > 0 /\ \A k \in 1..Len(s) : SubSeq(s, k, k) \in Digits

\* The token without its trailing `-<digits>` suffix, if it has one.
StripDigitSuffix(tok) ==
    LET D == {p \in 1..Len(tok) :
                 SubSeq(tok, p, p) = "-"
                 /\ AllDigits(SubSeq(tok, p + 1, Len(tok)))}
    IN  IF D = {} THEN tok
        ELSE SubSeq(tok, 1, (CHOOSE p \in D : TRUE) - 1)

\* The reference rule: the first token, less a trailing `-<digits>`, is a
\* redundancy-scheme name.
ReferenceGroupHeader(line) == StripDigitSuffix(line[1]) \in VdevGroupNames

\* The last line read was a structural line: it reached the default case
\* with continuation not armed.
LastReadStructural ==
    /\ pc = "scan"
    /\ Scanning
    /\ FreeShaped(build, sc.ez.Name, LastRead)
    /\ ~ContinuationArmed(build, ScanBefore)

\* The last line read opened a group: the open group is a new group named
\* after the line, with no device.
LastReadOpenedGroup ==
    /\ ~sc.curVdevGroup.nil
    /\ sc.curVdevGroup.obj =
          VdevGroup(Vdev(GroupName(build, LastRead[1]), HealthOf(LastRead)))
    /\ Len(sc.ez.Vdevs) = Len(ScanBefore.ez.Vdevs) + 1

\* C16: a structural line opens a new group if and only if its first token,
\* less a trailing `-<digits>` suffix and nothing else, is a
\* redundancy-scheme name.
C16_GroupHeaderRule ==
    LastReadStructural =>
        (LastReadOpenedGroup <=> ReferenceGroupHeader(LastRead))

\* C16, of the tokens the tool prints: a scheme name with one `-<digits>`
\* suffix opens a group, a token without a hyphen does not.
C16_OfToolTokens ==
    (LastReadStructural /\ LastRead[1] \in {"mirror-0", "sda", "sdb"})
        => (LastReadOpenedGroup <=> ReferenceGroupHeader(LastRead))

\* The last line read was a non-header line: it reached the default case.
LastReadNonHeader ==
    /\ pc = "scan"
    /\ Scanning
    /\ FreeShaped(build, sc.ez.Name, LastRead)

\* The last line read changed the action text.
ActionChanged == sc.ez.Action # ScanBefore.ez.Action

\* No group and no device had been recorded before the last line read.
NothingRecordedBefore ==
    ScanBefore.ez.Vdevs = <<>> /\ ScanBefore.curVdevGroup.nil

\* C17: a non-header line changes the action text only if the continuation
\* flag was armed and no group or device had been recorded, and doing so
\* disarms the flag (so the next non-header line does not change it); once
\* a group or device has been recorded no non-header line changes it.
C17_ContinuationBeforeGroups ==
    LastReadNonHeader =>
        /\ ActionChanged =>
              /\ ScanBefore.actionFound
              /\ NothingRecordedBefore
              /\ ~sc.actionFound
        /\ ~NothingRecordedBefore => ~ActionChanged

\* C17, of the flag alone: a non-header line changes the action text only
\* if the continuation flag was armed, by appending a space and its tokens,
\* and that disarms the flag.
C17_OfFlag ==
    (LastReadNonHeader /\ ActionChanged) =>
        /\ ScanBefore.actionFound
        /\ ~sc.actionFound
        /\ sc.ez.Action = ScanBefore.ez.Action \o " " \o Join(LastRead, " ")

\* The last line read starts with the pool name of the block.
LastReadIsNameEcho ==
    /\ Scanning
    /\ LastRead # <<>>
    /\ LastRead[1] = ScanPoolName

\* C18: a body line whose first token is the pool name is ignored: the
\* record's fields and groups, the open group and the continuation flag are
\* as they were before it, and nothing is aborted.
C18_PoolNameLineIgnored ==
    LastReadIsNameEcho =>
        /\ pc = "scan"
        /\ sc = [ScanBefore EXCEPT !.loc = sc.loc]

\* C18, of part_000: it ignores the line that echoes the pool name.
C18_OfPart000 == build = "part_000" => C18_PoolNameLineIgnored

\* One step of the listing call, as the cursor sees it: the count the
\* scanner returns is at least 0 and at most the number of lines after the
\* block-start line; an iteration without a scan moves the cursor by one;
\* within a report the cursor never moves back, and it never exceeds
\* len(out).
CursorStep ==
    /\ (pc = "scan" /\ pc' = "loop") =>
          /\ i' - i - 1 >= 0
          /\ i' - i - 1 <= n - (i + 1)
          /\ i' > i
    /\ (pc = "loop" /\ pc' = "loop" /\ pass' = pass) => i' = i + 1
    /\ pass' = pass => i' >= i
    /\ i' <= n'

\* C19: the scanner's count is never negative and never more than the lines
\* left after the block-start line, every driver iteration moves the cursor
\* forward, the cursor never exceeds len(out), and the listing call ends.
C19_DriverTerminates ==
    /\ [][CursorStep]_vars
    /\ <>(pc \in {"done", "panic"})

\* The call has returned the records of two blocks, the second of them
\* empty (the scanner returned 0 for it).
C19_Witness ==
    /\ pc = "done"
    /\ ret.done /\ ~ret.err
    /\ Len(ret.pools) = 2
    /\ ret.pools[1].Id = "123"
    /\ ret.pools[2].Id = ""

====
